---- MODULE Spec2Model ----
(***************************************************************************)
(* Polymarket exit monitor (src/main.py).                                  *)
(*                                                                         *)
(* One run of the program: scan_exit_opportunities walks MONITORED_COMBOS, *)
(* asks the order book for the best bid of the two legs of each            *)
(* combination, adds them, compares the sum with THRESHOLD and calls       *)
(* telegram_send; __main__ wraps the scan in a try/except that sends a     *)
(* crash report and re-raises.                                             *)
(*                                                                         *)
(* Prices are counted in hundredths (0.51 is 51, THRESHOLD 1.01 is 101).   *)
(* A Python float-or-None is a record [t, v]: t = "float" with the value   *)
(* v, t = "nan" (float("nan")), t = "None"; t = "TypeError" and the like   *)
(* stand for an exception leaving the function.  Every comparison with a   *)
(* nan is false, as in IEEE 754 / Python.  Sums are exact: for prices of   *)
(* two or three decimals the float sum compares with 1.01 as the exact sum *)
(* does.                                                                   *)
(***************************************************************************)
EXTENDS Integers, Sequences, FiniteSets, TLC

\* ------------------------------------------------------------ bounds
\* longest bid list of an order book
MaxBids == 3
\* longest MONITORED_COMBOS list
MaxCombos == 2

\* ------------------------------------------------------------ config
\* THRESHOLD = 1.01, in hundredths
THRESHOLD == 101

TOKENS ==
    [ CUT25 |->
        [YES |-> "92703761682322480664976766247614127878023988651992837287050266308961660624165",
         NO |-> "48193521645113703700467246669338225849301704920590102230072263970163239985027"],
      CUTCUTCUT |->
        [YES |-> "95417221270011105499568468828531867453865533932484364685389046548264041887861",
         NO |-> "101322769768415942646735830228475566436146317671120615766292718518675772773223"],
      NOCHANGE |->
        [YES |-> "112838095111461683880944516726938163688341306245473734071798778736646352193304",
         NO |-> "7321318078891059430231591636389479745928915782241484131001985601124919020061"],
      CUTCUTPAUSE |->
        [YES |-> "113401754986342384261044700457165882158632153698445535217371023842472815025478",
         NO |-> "81906419701908530974011339985097627770048267181648886108185004759027261509242"] ]

\* MONITORED_COMBOS as the source has it
SourceCombos ==
    << <<"CUT25", "YES", "CUTCUTPAUSE", "YES">>,
       <<"NOCHANGE", "YES", "CUTCUTCUT", "YES">> >>

\* The lists the model runs on: the source's list (repeated when longer,
\* cut when shorter), each entry as it is, or with a market, or with a leg,
\* that TOKENS does not hold.
SourceCombo(k) == SourceCombos[((k - 1) % Len(SourceCombos)) + 1]
ComboVariant(k, how) ==
    LET c == SourceCombo(k)
    IN  CASE how = "market" -> <<"CUT50", c[2], c[3], c[4]>>
          [] how = "leg" -> <<c[1], c[2], c[3], "MAYBE">>
          [] OTHER -> c
ComboLists ==
    UNION {{[k \in 1..n |-> ComboVariant(k, f[k])] :
               f \in [1..n -> {"source", "market", "leg"}]} : n \in 0..MaxCombos}

\* ------------------------------------------------------------ values
FNone == [t |-> "None", v |-> 0]
NaN == [t |-> "nan", v |-> 0]
\* an exception leaving a function, by its type
TypeError == [t |-> "TypeError", v |-> 0]
AttributeError == [t |-> "AttributeError", v |-> 0]
KeyError == [t |-> "KeyError", v |-> 0]
IsRaise(r) == r.t \in {"TypeError", "AttributeError", "KeyError"}
F(n) == [t |-> "float", v |-> n]

PriceValues == {50, 51}

\* What b.get("price") can be: a JSON number, a numeric string, the string
\* "nan" (or the literal NaN, which Python's json reads), a string that is
\* no number, or nothing (the key is missing or null).
PriceInputs ==
    {[k |-> "num", v |-> n] : n \in PriceValues}
    \cup {[k |-> "str", v |-> n] : n \in PriceValues}
    \cup {[k |-> "nanstr", v |-> 0], [k |-> "text", v |-> 0], [k |-> "missing", v |-> 0]}

\* An entry of the bid list: an object (with or without a price), or a JSON
\* value that is no object (a string, a list, null) and has no .get.
BidEntries ==
    {[obj |-> TRUE, price |-> p] : p \in PriceInputs}
    \cup {[obj |-> FALSE, price |-> [k |-> "missing", v |-> 0]]}

BidLists(n) == UNION {[1..m -> BidEntries] : m \in 0..n}

\* A parsed JSON body: {} (falsy), an object without "bids", an object
\* whose "bids" is null, an object with a bid list.
Bodies(n) ==
    {[k |-> "empty", bids |-> <<>>], [k |-> "nobids", bids |-> <<>>],
     [k |-> "nullbids", bids |-> <<>>]}
    \cup {[k |-> "book", bids |-> l] : l \in BidLists(n)}

RawNone == [k |-> "None", bids |-> <<>>]

\* What the GET can do: raise (connection error, timeout), answer a
\* non-2xx status, answer a body that is no JSON, or answer a JSON body.
Responses(n) ==
    {[http |-> h, body |-> RawNone] : h \in {"neterror", "status", "badjson"}}
    \cup {[http |-> "ok", body |-> b] : b \in Bodies(n)}

\* ------------------------------------------------------------ helpers
safe_float(x) ==
    CASE x.k = "num" -> F(x.v)
      [] x.k = "str" -> F(x.v)
      [] x.k = "nanstr" -> NaN
      [] OTHER -> FNone

\* p > best on Python floats
FloatGT(p, q) == p.t = "float" /\ q.t = "float" /\ p.v > q.v

fetch_orderbook(resp) ==
    IF resp.http = "ok" THEN resp.body ELSE RawNone

\* not raw: None and {} are falsy
Falsy(raw) == raw.k \in {"None", "empty"}

RECURSIVE best_loop(_, _, _)
best_loop(bids, n, best) ==
    IF n > Len(bids) THEN best
    ELSE IF ~bids[n].obj THEN AttributeError
    ELSE LET p == safe_float(bids[n].price)
         IN  IF p # FNone /\ (best = FNone \/ FloatGT(p, best))
             THEN best_loop(bids, n + 1, p)
             ELSE best_loop(bids, n + 1, best)

\* best_bid without its guard: raw["bids"] of a None or of an object that
\* has no bid list raises
best_bid_no_guard(raw) ==
    IF raw.k = "None" \/ raw.k = "nullbids" THEN TypeError
    ELSE IF raw.k # "book" THEN KeyError
    ELSE best_loop(raw.bids, 1, FNone)

\* best_bid, after its fetch: the bid of a snapshot
best_bid(raw) ==
    IF Falsy(raw) \/ raw.k = "nobids" THEN FNone
    ELSE IF raw.k = "nullbids" THEN TypeError
    ELSE best_loop(raw.bids, 1, FNone)

\* ------------------------------------------------------------ state
VARIABLES
    MONITORED_COMBOS,    \* the static list of (marketA, legA, marketB, legB)
    TELEGRAM_BOT_TOKEN,  \* os.getenv: "None", "" or a value
    TELEGRAM_CHAT_ID,
    pc,                  \* where the run is
    i,                   \* index of the combination of the for loop
    bidA, bidB, total,   \* locals of scan_exit_opportunities
    exc,                 \* the exception in flight
    log,                 \* the lines printed
    requests,            \* the order-book GETs issued, with what best_bid made of each
    calls,               \* the calls of telegram_send
    posts,               \* the HTTP POSTs issued by telegram_send
    exitStatus,          \* "running", "0" (clean), "1" (the exception left __main__)
    bb_resp, bb_out      \* best_bid applied on its own (SpecBid)

scanVars ==
    <<MONITORED_COMBOS, TELEGRAM_BOT_TOKEN, TELEGRAM_CHAT_ID, pc, i, bidA, bidB,
      total, exc, log, requests, calls, posts, exitStatus>>
bidVars == <<bb_resp, bb_out>>
vars == <<scanVars, bidVars>>

EnvValues == {"None", "", "set"}
Pending == [t |-> "pending", v |-> 0]
NoResponse == [http |-> "none", body |-> RawNone]

\* ------------------------------------------------------------ telegram_send
\* not x, for what os.getenv gives
NotSet(x) == x \in {"None", ""}

NotConfiguredAnd(tok, chat) == NotSet(tok) /\ NotSet(chat)

NotConfigured(tok, chat) == NotSet(tok) \/ NotSet(chat)

Line(kind, k, vals) == [kind |-> kind, combo |-> k, vals |-> vals]

\* telegram_send without its try/except: the exception of the POST leaves it
telegram_send_reraise(st, msg, post) ==
    IF NotConfigured(TELEGRAM_BOT_TOKEN, TELEGRAM_CHAT_ID)
    THEN [log |-> Append(st.log, Line("not configured", msg.combo, <<>>)),
          posts |-> st.posts,
          calls |-> Append(st.calls, [msg |-> msg, result |-> "noop"]),
          raised |-> FALSE]
    ELSE [log |-> st.log,
          posts |-> Append(st.posts, msg),
          calls |-> Append(st.calls,
                           [msg |-> msg, result |-> IF post = "ok" THEN "sent" ELSE "failed"]),
          raised |-> post # "ok"]

\* st holds the log, the POSTs and the calls so far; post is what the POST
\* does ("ok", or "raise": a connection error or a timeout). The result is
\* st after the call, and whether an exception left telegram_send.
telegram_send(st, msg, post) ==
    IF NotConfigured(TELEGRAM_BOT_TOKEN, TELEGRAM_CHAT_ID)
    THEN [log |-> Append(st.log, Line("not configured", msg.combo, <<>>)),
          posts |-> st.posts,
          calls |-> Append(st.calls, [msg |-> msg, result |-> "noop"]),
          raised |-> FALSE]
    ELSE [log |-> IF post = "ok" THEN st.log
                  ELSE Append(st.log, Line("telegram error", msg.combo, <<>>)),
          posts |-> Append(st.posts, msg),
          calls |-> Append(st.calls,
                           [msg |-> msg, result |-> IF post = "ok" THEN "sent" ELSE "failed"]),
          raised |-> FALSE]

PostOutcomes == {"ok", "raise"}

\* ------------------------------------------------------------ the scan
Resolvable(c) ==
    /\ c[1] \in DOMAIN TOKENS /\ c[2] \in DOMAIN TOKENS[c[1]]
    /\ c[3] \in DOMAIN TOKENS /\ c[4] \in DOMAIN TOKENS[c[3]]

TokenA(c) == TOKENS[c[1]][c[2]]
TokenB(c) == TOKENS[c[3]][c[4]]

\* bidA + bidB on floats
FloatAdd(a, b) == IF a.t = "nan" \/ b.t = "nan" THEN NaN ELSE F(a.v + b.v)

\* total > THRESHOLD in the place of total >= THRESHOLD
FloatGTStrict(a, n) == a.t = "float" /\ a.v > n

FloatGE(a, n) == a.t = "float" /\ a.v >= n

\* "and" in the place of "or"
BidsMissingBoth(a, b) == a = FNone /\ b = FNone

BidsMissing(a, b) == a = FNone \/ b = FNone

Now == [log |-> log, posts |-> posts, calls |-> calls]

ScanInit ==
    /\ MONITORED_COMBOS \in ComboLists
    /\ TELEGRAM_BOT_TOKEN \in EnvValues
    /\ TELEGRAM_CHAT_ID \in EnvValues
    /\ pc = "main"
    /\ i = 1
    /\ bidA = FNone /\ bidB = FNone /\ total = FNone
    /\ exc = "none"
    /\ log = <<>> /\ requests = <<>> /\ calls = <<>> /\ posts = <<>>
    /\ exitStatus = "running"

\* __main__ enters the try and scan_exit_opportunities prints its header
main_start ==
    /\ pc = "main"
    /\ log' = Append(log, Line("header", 0, <<>>))
    /\ pc' = "loop"
    /\ UNCHANGED <<MONITORED_COMBOS, TELEGRAM_BOT_TOKEN, TELEGRAM_CHAT_ID, i, bidA, bidB,
                   total, exc, requests, calls, posts, exitStatus, bidVars>>

\* the for statement and the two TOKENS lookups
loop_next ==
    /\ pc = "loop"
    /\ IF i > Len(MONITORED_COMBOS)
       THEN pc' = "exit" /\ exitStatus' = "0" /\ exc' = exc
       ELSE IF ~Resolvable(MONITORED_COMBOS[i])
       THEN pc' = "except" /\ exc' = "KeyError" /\ exitStatus' = exitStatus
       ELSE pc' = "bidA" /\ exc' = exc /\ exitStatus' = exitStatus
    /\ UNCHANGED <<MONITORED_COMBOS, TELEGRAM_BOT_TOKEN, TELEGRAM_CHAT_ID, i, bidA, bidB,
                   total, log, requests, calls, posts, bidVars>>

\* What one call of best_bid can come to: whether the GET gave a body, and
\* what best_bid returns (or raises) on it.
FetchOutcomes ==
    {[ok |-> resp.http = "ok", bid |-> best_bid(fetch_orderbook(resp))] :
        resp \in Responses(MaxBids)}

Request(leg, tok, o) ==
    [combo |-> i, leg |-> leg, token |-> tok, ok |-> o.ok, bid |-> o.bid]

\* best_bid(tA) asked again when its fetch failed
fetch_bidA_retry ==
    /\ pc = "bidA"
    /\ \E o \in FetchOutcomes :
         LET r == o.bid
         IN  /\ requests' = Append(requests, Request("A", TokenA(MONITORED_COMBOS[i]), o))
             /\ IF IsRaise(r)
                THEN pc' = "except" /\ exc' = r.t /\ bidA' = bidA
                ELSE IF ~o.ok
                THEN pc' = "bidA" /\ exc' = exc /\ bidA' = r
                ELSE pc' = "bidB" /\ exc' = exc /\ bidA' = r
    /\ UNCHANGED <<MONITORED_COMBOS, TELEGRAM_BOT_TOKEN, TELEGRAM_CHAT_ID, i, bidB,
                   total, log, calls, posts, exitStatus, bidVars>>

\* bidA = best_bid(tA)
fetch_bidA ==
    /\ pc = "bidA"
    /\ \E o \in FetchOutcomes :
         LET r == o.bid
         IN  /\ requests' = Append(requests, Request("A", TokenA(MONITORED_COMBOS[i]), o))
             /\ IF IsRaise(r)
                THEN pc' = "except" /\ exc' = r.t /\ bidA' = bidA
                ELSE pc' = "bidB" /\ exc' = exc /\ bidA' = r
    /\ UNCHANGED <<MONITORED_COMBOS, TELEGRAM_BOT_TOKEN, TELEGRAM_CHAT_ID, i, bidB,
                   total, log, calls, posts, exitStatus, bidVars>>

\* bidB = best_bid(tB)
fetch_bidB ==
    /\ pc = "bidB"
    /\ \E o \in FetchOutcomes :
         LET r == o.bid
         IN  /\ requests' = Append(requests, Request("B", TokenB(MONITORED_COMBOS[i]), o))
             /\ IF IsRaise(r)
                THEN pc' = "except" /\ exc' = r.t /\ bidB' = bidB
                ELSE pc' = "check" /\ exc' = exc /\ bidB' = r
    /\ UNCHANGED <<MONITORED_COMBOS, TELEGRAM_BOT_TOKEN, TELEGRAM_CHAT_ID, i, bidA,
                   total, log, calls, posts, exitStatus, bidVars>>

\* "break" in the place of "continue": missing bids end the scan
check_bids_break ==
    /\ pc = "check"
    /\ IF BidsMissing(bidA, bidB)
       THEN /\ log' = Append(log, Line("missing bids", i, <<>>))
            /\ i' = i /\ pc' = "exit" /\ total' = total /\ exitStatus' = "0"
       ELSE LET t == FloatAdd(bidA, bidB)
            IN  /\ total' = t
                /\ log' = Append(log, Line("eval", i, <<bidA, bidB, t>>))
                /\ exitStatus' = exitStatus
                /\ IF FloatGE(t, THRESHOLD)
                   THEN pc' = "alert" /\ i' = i
                   ELSE pc' = "loop" /\ i' = i + 1
    /\ UNCHANGED <<MONITORED_COMBOS, TELEGRAM_BOT_TOKEN, TELEGRAM_CHAT_ID, bidA, bidB,
                   exc, requests, calls, posts, bidVars>>

\* the missing-bids test, the sum, the evaluation line and the threshold test
check_bids ==
    /\ pc = "check"
    /\ IF BidsMissing(bidA, bidB)
       THEN /\ log' = Append(log, Line("missing bids", i, <<>>))
            /\ i' = i + 1 /\ pc' = "loop" /\ total' = total
       ELSE LET t == FloatAdd(bidA, bidB)
            IN  /\ total' = t
                /\ log' = Append(log, Line("eval", i, <<bidA, bidB, t>>))
                /\ IF FloatGE(t, THRESHOLD)
                   THEN pc' = "alert" /\ i' = i
                   ELSE pc' = "loop" /\ i' = i + 1
    /\ UNCHANGED <<MONITORED_COMBOS, TELEGRAM_BOT_TOKEN, TELEGRAM_CHAT_ID, bidA, bidB,
                   exc, requests, calls, posts, exitStatus, bidVars>>

AlertMsg == [kind |-> "alert", combo |-> i, text |-> <<total, THRESHOLD>>]

\* "Alert sent" printed only when the POST went through
send_alert_if_delivered ==
    /\ pc = "alert"
    /\ \E post \in PostOutcomes :
         LET st == telegram_send(Now, AlertMsg, post)
         IN  /\ posts' = st.posts /\ calls' = st.calls
             /\ log' = IF st.calls[Len(st.calls)].result = "sent"
                       THEN Append(st.log, Line("alert sent", i, <<>>))
                       ELSE st.log
             /\ pc' = "loop" /\ exc' = exc /\ i' = i + 1
    /\ UNCHANGED <<MONITORED_COMBOS, TELEGRAM_BOT_TOKEN, TELEGRAM_CHAT_ID, bidA, bidB,
                   total, requests, exitStatus, bidVars>>

\* telegram_send(msg) and the "Alert sent" line
send_alert ==
    /\ pc = "alert"
    /\ \E post \in PostOutcomes :
         LET st == telegram_send(Now, AlertMsg, post)
         IN  /\ posts' = st.posts /\ calls' = st.calls
             /\ IF st.raised
                THEN /\ log' = st.log /\ pc' = "except" /\ exc' = "RequestException"
                     /\ i' = i
                ELSE /\ log' = Append(st.log, Line("alert sent", i, <<>>))
                     /\ pc' = "loop" /\ exc' = exc /\ i' = i + 1
    /\ UNCHANGED <<MONITORED_COMBOS, TELEGRAM_BOT_TOKEN, TELEGRAM_CHAT_ID, bidA, bidB,
                   total, requests, exitStatus, bidVars>>

CrashMsg == [kind |-> "crash", combo |-> i, text |-> <<exc>>]

\* the handler re-raises without the crash report
main_except_no_report ==
    /\ pc = "except"
    /\ pc' = "exit"
    /\ exitStatus' = "1"
    /\ UNCHANGED <<MONITORED_COMBOS, TELEGRAM_BOT_TOKEN, TELEGRAM_CHAT_ID, i, bidA, bidB,
                   total, exc, log, requests, calls, posts, bidVars>>

\* except Exception as e: telegram_send(crash report); raise
main_except ==
    /\ pc = "except"
    /\ \E post \in PostOutcomes :
         LET st == telegram_send(Now, CrashMsg, post)
         IN  /\ posts' = st.posts /\ calls' = st.calls /\ log' = st.log
    /\ pc' = "exit"
    /\ exitStatus' = "1"
    /\ UNCHANGED <<MONITORED_COMBOS, TELEGRAM_BOT_TOKEN, TELEGRAM_CHAT_ID, i, bidA, bidB,
                   total, exc, requests, bidVars>>

Init == ScanInit /\ bb_resp = NoResponse /\ bb_out = Pending

Next ==
    \/ main_start
    \/ loop_next
    \/ fetch_bidA
    \/ fetch_bidB
    \/ check_bids
    \/ send_alert
    \/ main_except

Spec == Init /\ [][Next]_vars

\* ------------------------------------------------------------ best_bid alone
InitBid ==
    /\ bb_resp \in Responses(MaxBids)
    /\ bb_out = Pending
    /\ MONITORED_COMBOS = <<>>
    /\ TELEGRAM_BOT_TOKEN = "None"
    /\ TELEGRAM_CHAT_ID = "None"
    /\ pc = "idle"
    /\ i = 1
    /\ bidA = FNone /\ bidB = FNone /\ total = FNone
    /\ exc = "none"
    /\ log = <<>> /\ requests = <<>> /\ calls = <<>> /\ posts = <<>>
    /\ exitStatus = "running"

apply_best_bid ==
    /\ bb_out = Pending
    /\ bb_out' = best_bid(fetch_orderbook(bb_resp))
    /\ UNCHANGED <<bb_resp, scanVars>>

NextBid == apply_best_bid

SpecBid == InitBid /\ [][NextBid]_vars

\* ------------------------------------------------------------ reading a run
Combos == 1..Len(MONITORED_COMBOS)

\* the requests made for leg `leg` of combination k, as places in `requests`
Reqs(k, leg) == {n \in DOMAIN requests : requests[n].combo = k /\ requests[n].leg = leg}
ReqOf(k, leg) == requests[CHOOSE n \in Reqs(k, leg) : TRUE]
Lines(kind, k) == {n \in DOMAIN log : log[n].kind = kind /\ log[n].combo = k}
AlertCalls(k) == {n \in DOMAIN calls : calls[n].msg.kind = "alert" /\ calls[n].msg.combo = k}
CrashCalls == {n \in DOMAIN calls : calls[n].msg.kind = "crash"}

\* the loop has left combination k behind
Finished(k) == k < i
\* both calls of best_bid returned for combination k
BothReturned(k) ==
    /\ Reqs(k, "A") # {} /\ Reqs(k, "B") # {}
    /\ ~IsRaise(ReqOf(k, "A").bid) /\ ~IsRaise(ReqOf(k, "B").bid)
NoValue(k, leg) == ReqOf(k, leg).bid.t = "None"
BothPresent(k) == BothReturned(k) /\ ~NoValue(k, "A") /\ ~NoValue(k, "B")
SumOf(k) == FloatAdd(ReqOf(k, "A").bid, ReqOf(k, "B").bid)
AtOrAbove(k) == SumOf(k).t = "float" /\ SumOf(k).v >= THRESHOLD
Below(k) == SumOf(k).t = "float" /\ SumOf(k).v < THRESHOLD
Unset(x) == x = "None" \/ x = ""
\* the scan itself raised: a key that does not resolve, or a book that
\* best_bid cannot read
ScanRaised ==
    \/ \E n \in DOMAIN requests : IsRaise(requests[n].bid)
    \/ i \in Combos /\ ~Resolvable(MONITORED_COMBOS[i]) /\ pc \notin {"main", "loop"}

\* ------------------------------------------------------------ claims

C2_UnresolvableKeyCrashReportThenFailure ==
    /\ Cardinality(CrashCalls) <= 1
    /\ exitStatus = "1" =>
          /\ Cardinality(CrashCalls) = 1
          /\ calls[Len(calls)].msg.kind = "crash"
    /\ \A k \in Combos :
          ~Resolvable(MONITORED_COMBOS[k]) =>
              /\ ~Finished(k)
              /\ Reqs(k, "A") = {} /\ Reqs(k, "B") = {}
              /\ (i = k /\ pc \notin {"main", "loop"}) =>
                    \/ /\ pc = "except" /\ exc = "KeyError"
                       /\ CrashCalls = {} /\ exitStatus = "running"
                    \/ /\ pc = "exit" /\ exitStatus = "1"
                       /\ calls[Len(calls)].msg = [kind |-> "crash", combo |-> k,
                                                   text |-> <<"KeyError">>]

\* the second combination does not resolve: the run ended in failure after
\* one crash report
C2_Witness ==
    /\ pc = "exit" /\ exitStatus = "1" /\ i = 2
    /\ i \in Combos /\ ~Resolvable(MONITORED_COMBOS[i])
    /\ Cardinality(CrashCalls) = 1

\* C3: when best_bid returned for both legs of a combination and gave no
\* value for at least one, the combination logs one "missing bids" line,
\* no evaluation line and no alert, nothing is raised, and the loop goes on
\* to the next combination of the list.
C3_MissingBidsSkipsTheCombination ==
    \A k \in Combos :
        (BothReturned(k) /\ (NoValue(k, "A") \/ NoValue(k, "B")) /\ ~(pc = "check" /\ i = k)) =>
            /\ Finished(k)
            /\ Cardinality(Lines("missing bids", k)) = 1
            /\ Lines("eval", k) = {} /\ Lines("alert sent", k) = {}
            /\ AlertCalls(k) = {}
            /\ (pc \in {"except", "exit"} /\ i = k + 1 /\ i \in Combos) =>
                  \/ Reqs(i, "A") # {}
                  \/ ~Resolvable(MONITORED_COMBOS[i])

\* the fetch of leg A failed, leg B has a bid: the combination was skipped
\* and the next one was evaluated
C3_Witness ==
    \E k \in Combos :
        /\ BothReturned(k) /\ ~ReqOf(k, "A").ok /\ ReqOf(k, "B").bid = F(51)
        /\ Cardinality(Lines("missing bids", k)) = 1
        /\ k + 1 \in Combos /\ Lines("eval", k + 1) # {}

\* C4: what the POST of telegram_send does never changes the scan or the
\* exit status: a run ends in failure exactly when the scan itself raised,
\* a clean run has evaluated every combination, and every combination is
\* alerted exactly when its sum is at or above the threshold, whether the
\* deliveries before it failed or not.
C4_DeliveryFailureChangesNothing ==
    /\ pc = "except" => ScanRaised
    /\ pc = "exit" => exitStatus = (IF ScanRaised THEN "1" ELSE "0")
    /\ (pc = "exit" /\ ~ScanRaised) => i = Len(MONITORED_COMBOS) + 1
    /\ \A k \in Combos :
          Finished(k) =>
              /\ BothReturned(k)
              /\ Cardinality(AlertCalls(k)) = (IF BothPresent(k) /\ AtOrAbove(k) THEN 1 ELSE 0)

\* the delivery of the first alert failed; the second combination was
\* evaluated and alerted all the same and the run ended clean
C4_Witness ==
    /\ pc = "exit" /\ exitStatus = "0"
    /\ Len(calls) = 2
    /\ calls[1].result = "failed" /\ calls[1].msg.combo = 1
    /\ calls[2].msg.combo = 2

\* C5: with the bot token or the chat id unset, no HTTP POST is ever made,
\* every call of telegram_send (alert or crash report) is a no-op that logs
\* the warning once, every combination at or above the threshold still
\* gets its call, and the scan runs to its end.
C5_UnsetCredentialsNoPost ==
    (Unset(TELEGRAM_BOT_TOKEN) \/ Unset(TELEGRAM_CHAT_ID)) =>
        /\ posts = <<>>
        /\ \A n \in DOMAIN calls : calls[n].result = "noop"
        /\ Cardinality({n \in DOMAIN log : log[n].kind = "not configured"}) = Len(calls)
        /\ \A k \in Combos :
              (Finished(k) /\ BothPresent(k) /\ AtOrAbove(k)) => Cardinality(AlertCalls(k)) = 1
        /\ (pc = "exit" /\ ~ScanRaised) => (exitStatus = "0" /\ i = Len(MONITORED_COMBOS) + 1)
        /\ exitStatus = "1" => Cardinality(CrashCalls) = 1

\* only the chat id is unset: an alert and a crash report were both no-ops
C5_Witness ==
    /\ TELEGRAM_BOT_TOKEN = "set" /\ TELEGRAM_CHAT_ID = ""
    /\ Len(calls) = 2 /\ posts = <<>>
    /\ calls[1].msg.kind = "alert" /\ calls[2].msg.kind = "crash"
    /\ pc = "exit"

\* the bid lists with the same entries in another order
Perms(n) == {f \in [1..n -> 1..n] : \A a, b \in 1..n : a # b => f[a] # f[b]}
Permuted(bids, f) == [n \in 1..Len(bids) |-> bids[f[n]]]
Coercible(p) == p.k \in {"num", "str", "nanstr"}
Uncoercible(p) == p.k \in {"text", "missing"}

\* C6: for a bid list of objects with at least one price that float()
\* accepts, best_bid returns one of the coerced prices, none of the coerced
\* prices is greater, and the result is the same in any order of the
\* entries.
C6_MaximumInAnyOrder ==
    LET bids == bb_resp.body.bids
    IN  (/\ bb_out # Pending /\ bb_resp.http = "ok" /\ bb_resp.body.k = "book"
         /\ \A n \in DOMAIN bids : bids[n].obj
         /\ \E n \in DOMAIN bids : Coercible(bids[n].price)) =>
            /\ \E n \in DOMAIN bids :
                  Coercible(bids[n].price) /\ bb_out = safe_float(bids[n].price)
            /\ \A n \in DOMAIN bids : ~FloatGT(safe_float(bids[n].price), bb_out)
            /\ \A f \in Perms(Len(bids)) :
                  best_bid([bb_resp.body EXCEPT !.bids = Permuted(bids, f)]) = bb_out

OwnOutcome(k) ==
    IF NoValue(k, "A") \/ NoValue(k, "B")
    THEN /\ Cardinality(Lines("missing bids", k)) = 1
         /\ Lines("eval", k) = {} /\ Lines("alert sent", k) = {} /\ AlertCalls(k) = {}
    ELSE /\ Lines("missing bids", k) = {}
         /\ \E n \in DOMAIN log :
               /\ Lines("eval", k) = {n}
               /\ log[n].vals = <<ReqOf(k, "A").bid, ReqOf(k, "B").bid, SumOf(k)>>
         /\ IF AtOrAbove(k)
            THEN /\ Cardinality(Lines("alert sent", k)) = 1
                 /\ \E n \in DOMAIN calls :
                       /\ AlertCalls(k) = {n}
                       /\ calls[n].msg.text = <<SumOf(k), THRESHOLD>>
            ELSE Lines("alert sent", k) = {} /\ AlertCalls(k) = {}
Untouched(k) ==
    /\ Reqs(k, "A") = {} /\ Reqs(k, "B") = {}
    /\ \A n \in DOMAIN log : log[n].combo # k
    /\ \A n \in DOMAIN calls : calls[n].msg.combo # k
InListOrder(seq, CombOf(_)) ==
    \A n, m \in DOMAIN seq : n < m => CombOf(seq[n]) <= CombOf(seq[m])
CombOfReq(r) == r.combo
CombOfCall(c) == c.msg.combo

\* combinations are handled in list order, and what a finished one logged
\* and whether it alerted is what its own two bids decide
OwnOutcomeInListOrder ==
    /\ InListOrder(requests, CombOfReq)
    /\ InListOrder(log, CombOfReq)
    /\ InListOrder(calls, CombOfCall)
    /\ \A k \in Combos : Finished(k) => (BothReturned(k) /\ OwnOutcome(k))

\* C8 as stated: combinations are evaluated in list order, each outcome is
\* decided by the combination's own two legs, and whether a combination is
\* evaluated does not depend on the outcome of any other, so that at the
\* end of a run every combination whose own keys resolve has been
\* evaluated.
C8_EveryCombinationEvaluated ==
    /\ OwnOutcomeInListOrder
    /\ pc = "exit" =>
          \A k \in Combos : Resolvable(MONITORED_COMBOS[k]) => Reqs(k, "A") # {}

\* C8, amended: combinations are evaluated in list order; what a
\* combination the loop has finished logs, and whether it alerts, is
\* decided by its own two bids alone; a clean run has finished every
\* combination; a run that raised at combination i has finished the ones
\* before i and has not touched the ones after it.
C8_IndependentUntilOneRaises ==
    /\ OwnOutcomeInListOrder
    /\ \A k \in Combos : k > i => Untouched(k)
    /\ (pc = "exit" /\ exitStatus = "0") => i = Len(MONITORED_COMBOS) + 1
    /\ (pc = "exit" /\ exitStatus = "1") => i \in Combos

\* a clean run of two combinations: the first alerted, the second, with a
\* missing bid, was skipped
C8_Witness ==
    /\ pc = "exit" /\ exitStatus = "0" /\ Len(MONITORED_COMBOS) = 2
    /\ Cardinality(AlertCalls(1)) = 1
    /\ Cardinality(Lines("missing bids", 2)) = 1

\* the loop reached the missing-bids test of combination k
Evaluated(k) == Lines("missing bids", k) # {} \/ Lines("eval", k) # {}

\* C9: no order-book request is ever repeated; a combination that reached
\* its evaluation made exactly two requests, leg A's token first and leg
\* B's second, also when the fetch of leg A failed; a run makes at most
\* 2 x (number of combinations) requests.
C9_NoRetries ==
    /\ Len(requests) <= 2 * Len(MONITORED_COMBOS)
    /\ \A k \in Combos :
          /\ Cardinality(Reqs(k, "A")) <= 1 /\ Cardinality(Reqs(k, "B")) <= 1
          /\ Evaluated(k) =>
                /\ Cardinality(Reqs(k, "A")) = 1 /\ Cardinality(Reqs(k, "B")) = 1
                /\ \A n \in Reqs(k, "A"), m \in Reqs(k, "B") :
                      /\ n < m
                      /\ requests[n].token = TOKENS[MONITORED_COMBOS[k][1]][MONITORED_COMBOS[k][2]]
                      /\ requests[m].token = TOKENS[MONITORED_COMBOS[k][3]][MONITORED_COMBOS[k][4]]
          /\ (Reqs(k, "A") # {} /\ ~ReqOf(k, "A").ok /\ ~(i = k /\ pc = "bidB")) =>
                Cardinality(Reqs(k, "B")) = 1

\* two combinations, four requests, the fetch of the first leg A failed
C9_Witness ==
    /\ pc = "exit" /\ exitStatus = "0" /\ Len(MONITORED_COMBOS) = 2 /\ Len(requests) = 4
    /\ ~requests[1].ok /\ requests[2].leg = "B" /\ requests[2].combo = 1

\* C10: the "Alert sent" line is printed once for a combination exactly
\* when its sum is at or above the threshold, whatever telegram_send did:
\* a no-op for unset credentials, a POST that went through, a POST that
\* raised.
C10_AlertSentLineWhateverTheDelivery ==
    \A k \in Combos :
        Cardinality(Lines("alert sent", k)) =
            (IF Finished(k) /\ BothPresent(k) /\ AtOrAbove(k) THEN 1 ELSE 0)

\* the POST of an alert raised and its "Alert sent" line is in the log
C10_Witness ==
    \E k \in Combos :
        /\ Lines("alert sent", k) # {}
        /\ \E n \in AlertCalls(k) : calls[n].result = "failed"
        /\ Lines("telegram error", k) # {}

====
